---------------------------- MODULE Spec2Model ----------------------------
(***************************************************************************)
(* InsightCast: the search worker (worker.ts, kept as src/unnamed/part_001) *)
(* and the React hook that drives it (src/src/hooks/useInsight.ts).         *)
(*                                                                          *)
(* Strings are TLA+ strings; a character is a string of length one.         *)
(* Scores are counted in tenths (ScoreUnit): the heuristic boost of 0.1 is  *)
(* 1, its cap of 0.3 is 3.  A normalised score is the exact fraction        *)
(* [n, d]; d = 0 is JavaScript's NaN (0 / 0).                               *)
(***************************************************************************)
EXTENDS Integers, Sequences, FiniteSets, TLC

VARIABLES
    \* ---- detectQuestionIntent harness
    query,          \* the query string handed to detectQuestionIntent
    lastIndex,      \* lastIndex of each RegExp object of QUESTION_PATTERNS
    intents,        \* the labels returned by the latest call (<<>> before)
    prevIntents,    \* the labels returned by the call before it
    nCalls,         \* how many calls were made on this query
    \* ---- calculateHeuristicBoost harness
    bText,          \* chunk text
    bIntents,       \* list of intents
    boost,          \* returned boost, -1 before the call
    \* ---- semanticSearch re-ranking pipeline (lines 430-466)
    sPc,            \* "hits" | "ranked" | "sliced" | "posted"
    sHits,          \* searchResults.hits of the index engine
    sQuery,         \* the query
    sIntents,       \* const intents = detectQuestionIntent(query)
    sLimit,         \* message.limit as <<l>>, NoLimit when the request gives none
    scoredResults,  \* the Map, as the sequence of its values in insertion order
    sliced,         \* Array.from(values).sort(...).slice(0, limit), raw scores
    results,        \* the posted result list
    \* ---- chunkTextWithWindow harness
    cText,          \* the text handed to chunkTextWithWindow
    cPc,            \* "idle" | "text" | "done"
    cChunks         \* the chunks returned (<<>> before the call)

intentVars == <<query, lastIndex, intents, prevIntents, nCalls>>
boostVars == <<bText, bIntents, boost>>
searchVars == <<sPc, sHits, sQuery, sIntents, sLimit, scoredResults, sliced, results>>
chunkVars == <<cText, cPc, cChunks>>
pureVars == <<intentVars, boostVars, searchVars, chunkVars>>

VARIABLES
    \* ---- the worker (module state of worker.ts)
    asrPipeline,      \* TRUE once the ASR pipeline is loaded (null before)
    embedderPipeline, \* TRUE once the embedder is loaded (null before)
    oramaDb,          \* the current index: its number in dbs, 0 for null
    dbs,              \* every index create() has made: dbs[n] is its set of documents
    tasks,            \* the handler invocations suspended at an await
    inbox,            \* messages posted to the worker, not yet dispatched
    outbox,           \* messages posted by the worker, not yet handled
    faults,           \* failures the collaborators have produced so far
    began,            \* history: per transcribe request, the index current when it began
    skipped,          \* history: ids of the passages dropped for their embedding's length
    hist,             \* history: the requests handled and the failures of collaborators
    \* ---- the hook (state of useInsight)
    isModelReady, isTranscribing, isSearching,
    segments, searchResults, searchQuery, error, audioFile,
    loads,            \* loadAudio invocations suspended at an await
    effectPending,    \* searchQuery changed and its effect has not run yet
    nextReq,          \* number of the next message posted to the worker
    calls,            \* calls of the hook's functions made so far
    budget            \* calls of the hook's functions the user makes in this run

workerVars == <<asrPipeline, embedderPipeline, oramaDb, dbs, tasks, faults, began, skipped, hist>>
queueVars == <<inbox, outbox>>
hookState == <<isModelReady, isTranscribing, isSearching, segments, searchResults,
                searchQuery, error, audioFile, effectPending>>
hookVars == <<hookState, loads, nextReq, calls, budget>>
systemVars == <<workerVars, queueVars, hookVars>>
vars == <<pureVars, systemVars>>

-----------------------------------------------------------------------------
(* String primitives of the JavaScript runtime.                            *)

Upper == "ABCDEFGHIJKLMNOPQRSTUVWXYZ"
Lower == "abcdefghijklmnopqrstuvwxyz"
DigitsUnderscore == "0123456789_"

CharAt(s, i) == SubSeq(s, i, i)

\* position of character c in s, 0 when absent
PosIn(c, s) ==
    IF \E i \in 1..Len(s) : CharAt(s, i) = c
    THEN CHOOSE i \in 1..Len(s) : CharAt(s, i) = c
    ELSE 0

\* the lower-case letter of every upper-case letter
LowerOf == [c \in {CharAt(Upper, i) : i \in 1..Len(Upper)} |-> CharAt(Lower, PosIn(c, Upper))]

ToLowerChar(c) == IF c \in DOMAIN LowerOf THEN LowerOf[c] ELSE c

RECURSIVE LowerFrom(_, _)
LowerFrom(s, i) ==
    IF i > Len(s) THEN "" ELSE ToLowerChar(CharAt(s, i)) \o LowerFrom(s, i + 1)

\* String.prototype.toLowerCase
ToLowerCase(s) == LowerFrom(s, 1)

\* String.prototype.includes
Includes(s, t) ==
    \E i \in 1..(Len(s) - Len(t) + 1) : SubSeq(s, i, i + Len(t) - 1) = t

\* \w of a RegExp
CharsOf(s) == {CharAt(s, i) : i \in 1..Len(s)}
WordChars == CharsOf(Upper) \cup CharsOf(Lower) \cup CharsOf(DigitsUnderscore)
IsWordChar(c) == c \in WordChars

\* \b between position i-1 and i (1-based; i = 1 is the start, Len+1 the end)
WordBoundary(s, i) ==
    LET before == i > 1 /\ IsWordChar(CharAt(s, i - 1))
        after  == i <= Len(s) /\ IsWordChar(CharAt(s, i))
    IN  before # after

-----------------------------------------------------------------------------
(* Intent classifier.                                                      *)

Labels == <<"definition", "origin", "howTo", "example", "author">>

\* /\b(alt|alt|...)\b/i : the alternatives and the flags of each pattern.
QUESTION_PATTERNS ==
    [definition |-> [alts |-> <<"what is", "what are", "define", "meaning of", "definition">>,
                     ignoreCase |-> TRUE, global |-> FALSE],
     origin     |-> [alts |-> <<"where does", "where do", "origin", "source", "come from", "comes from">>,
                     ignoreCase |-> TRUE, global |-> FALSE],
     howTo      |-> [alts |-> <<"how can", "how do", "how to", "ways to", "improve", "develop", "better">>,
                     ignoreCase |-> TRUE, global |-> FALSE],
     example    |-> [alts |-> <<"example", "examples", "instance", "such as", "like what", "give me", "show me", "real life">>,
                     ignoreCase |-> TRUE, global |-> FALSE],
     author     |-> [alts |-> <<"who", "author", "person", "says", "believes", "believed", "troward">>,
                     ignoreCase |-> TRUE, global |-> FALSE]]

ANSWER_INDICATORS ==
    [definition |-> <<"is", "means", "refers to", "defined as", "is like">>,
     origin     |-> <<"comes from", "source", "part of", "connected to">>,
     howTo      |-> <<"by", "through", "learn to", "practice", "listening", "trust">>,
     example    |-> <<"for example", "such as", "like when", "imagine", "think of">>,
     author     |-> <<"says", "believes", "believed", "according to">>]

\* the subject as the pattern compares it: case-folded under the i flag
Canonicalize(pat, s) == IF pat.ignoreCase THEN ToLowerCase(s) ELSE s

\* does \b(alt)\b match s (subj when canonicalized) at 1-based position i
AltMatchesAt(alt, s, subj, i) ==
    /\ i + Len(alt) - 1 <= Len(s)
    /\ SubSeq(subj, i, i + Len(alt) - 1) = alt
    /\ WordBoundary(s, i)
    /\ WordBoundary(s, i + Len(alt))

\* the 1-based positions >= from at which the pattern matches
MatchPositions(pat, s, from) ==
    LET subj == Canonicalize(pat, s)
    IN  {i \in from..Len(s) : \E k \in 1..Len(pat.alts) : AltMatchesAt(pat.alts[k], s, subj, i)}

Min(S) == CHOOSE x \in S : \A y \in S : x <= y
Max(S) == CHOOSE x \in S : \A y \in S : x >= y

\* RegExp.prototype.test (RegExpBuiltinExec): a pattern without the g flag
\* starts at 0 and leaves lastIndex alone; with it, the search starts at
\* lastIndex, which becomes the end of the match, or 0 on failure.
RegExpTest(pat, li, s) ==
    LET from == IF pat.global THEN li + 1 ELSE 1
        pos  == MatchPositions(pat, s, from)
    IN  IF pos = {}
        THEN [matched |-> FALSE, lastIndex |-> IF pat.global THEN 0 ELSE li]
        ELSE LET i == Min(pos)
                 k == Min({j \in 1..Len(pat.alts) :
                              AltMatchesAt(pat.alts[j], s, Canonicalize(pat, s), i)})
             IN  [matched |-> TRUE,
                  lastIndex |-> IF pat.global THEN i - 1 + Len(pat.alts[k]) ELSE li]

\* variant: "general" is added to whatever was found
GeneralFallbackAlways(found) == Append(found, "general")

GeneralFallback(found) == IF Len(found) > 0 THEN found ELSE <<"general">>

\* detectQuestionIntent, given the lastIndex of every pattern: the labels,
\* in Object.entries order, whose pattern tests true.
detectQuestionIntent(li, q) ==
    LET hit(type) == RegExpTest(QUESTION_PATTERNS[type], li[type], q).matched
    IN  GeneralFallback(SelectSeq(Labels, hit))

LastIndexAfter(li, q) ==
    [type \in DOMAIN li |-> RegExpTest(QUESTION_PATTERNS[type], li[type], q).lastIndex]

FreshLastIndex == [type \in {Labels[i] : i \in 1..Len(Labels)} |-> 0]

-----------------------------------------------------------------------------
(* Heuristic boost.  boost += 0.1 is BoostStep, Math.min(boost, 0.3) is    *)
(* BoostCap.  In IEEE doubles 0.1 + 0.1 = 0.2 and 0.1 + 0.1 + 0.1 exceeds  *)
(* 0.3, so the double result is 0.1 * k for k < 3 and exactly 0.3 from     *)
(* k = 3 on: the tenths below are the same values.                         *)

BoostStep == 1
BoostCap == 3

Min2(a, b) == IF a <= b THEN a ELSE b

\* ANSWER_INDICATORS[intent] || []
IndicatorsOf(intent) ==
    IF intent \in DOMAIN ANSWER_INDICATORS THEN ANSWER_INDICATORS[intent] ELSE <<>>

\* the inner for loop: the indicators of one intent found in lowerText
IndicatorHits(lowerText, intent) ==
    Cardinality({j \in 1..Len(IndicatorsOf(intent)) :
                    Includes(lowerText, IndicatorsOf(intent)[j])})

RECURSIVE BoostSum(_, _, _)
BoostSum(lowerText, intentList, i) ==
    IF i > Len(intentList) THEN 0
    ELSE BoostStep * IndicatorHits(lowerText, intentList[i])
         + BoostSum(lowerText, intentList, i + 1)

BoostLowerText(text) == ToLowerCase(text)

\* variant: no cap
BoostMinUncapped(b) == b

BoostMin(b) == Min2(b, BoostCap)

calculateHeuristicBoost(text, intentList) ==
    BoostMin(BoostSum(BoostLowerText(text), intentList, 1))

-----------------------------------------------------------------------------
(* Chunker.                                                                *)

WINDOW_SIZE == 3
STRIDE == 1

IsTerminator(c) == c \in {".", "!", "?"}
IsQuote(c) == c \in {"\"", "'"}
IsSpace(c) == c = " "

\* last position of the maximal run, starting at p, of terminators (term =
\* TRUE) or of other characters (term = FALSE); p - 1 when the run is empty
RECURSIVE RunEnd(_, _, _)
RunEnd(text, p, term) ==
    IF p <= Len(text) /\ IsTerminator(CharAt(text, p)) = term
    THEN RunEnd(text, p + 1, term)
    ELSE p - 1

\* text.match(/[^.!?]+[.!?]+["']?|[^.!?]+$/g), <<>> for null: scanning from
\* p, a terminator cannot start a match; a run of other characters matches
\* with the terminators (and one quote) that follow it, or alone when it
\* reaches the end of the text.
RECURSIVE MatchAll(_, _)
MatchAll(text, p) ==
    IF p > Len(text) THEN <<>>
    ELSE IF IsTerminator(CharAt(text, p)) THEN MatchAll(text, p + 1)
    ELSE LET e1 == RunEnd(text, p, FALSE)
             e2 == RunEnd(text, e1 + 1, TRUE)
             e3 == IF e2 < Len(text) /\ IsQuote(CharAt(text, e2 + 1)) THEN e2 + 1 ELSE e2
         IN  IF e1 = Len(text)
             THEN <<SubSeq(text, p, e1)>>
             ELSE <<SubSeq(text, p, e3)>> \o MatchAll(text, e3 + 1)

\* String.prototype.trim
RECURSIVE TrimStart(_)
TrimStart(s) == IF Len(s) > 0 /\ IsSpace(CharAt(s, 1)) THEN TrimStart(Tail(s)) ELSE s
RECURSIVE TrimEnd(_)
TrimEnd(s) ==
    IF Len(s) > 0 /\ IsSpace(CharAt(s, Len(s))) THEN TrimEnd(SubSeq(s, 1, Len(s) - 1)) ELSE s
Trim(s) == TrimEnd(TrimStart(s))

NonEmpty(s) == Len(s) > 0

\* match(...)?.map(s => s.trim()).filter(s => s.length > 0) || [text]
Sentences(text) ==
    LET m == MatchAll(text, 1)
    IN  IF m = <<>> THEN <<text>>
        ELSE SelectSeq([i \in 1..Len(m) |-> Trim(m[i])], NonEmpty)

RECURSIVE Join(_, _)
Join(strs, sep) ==
    IF Len(strs) = 0 THEN ""
    ELSE IF Len(strs) = 1 THEN strs[1]
    ELSE strs[1] \o sep \o Join(Tail(strs), sep)

\* String.prototype.indexOf, 0-based, -1 when absent
IndexOf(s, t) ==
    IF Includes(s, t) \/ Len(t) = 0
    THEN Min({i \in 1..(Len(s) - Len(t) + 1) : SubSeq(s, i, i + Len(t) - 1) = t} \cup
             (IF Len(t) = 0 THEN {1} ELSE {})) - 1
    ELSE -1

\* Math.max(0, c / len) and Math.min(1, c / len) as exact fractions; 0 / 0 is NaN
\* and passes through Math.max and Math.min.
NaN == [n |-> 0, d |-> 0]
IsNaN(r) == r.d = 0
StartRatio(c, len) ==
    IF len = 0 THEN NaN ELSE [n |-> IF c < 0 THEN 0 ELSE c, d |-> len]
EndRatio(c, len) ==
    IF len = 0 THEN NaN ELSE [n |-> Min2(c, len), d |-> len]

\* one pass of the for loop, i 0-based
WindowChunk(text, sentences, i) ==
    LET windowSentences == SubSeq(sentences, i + 1, Min2(i + WINDOW_SIZE, Len(sentences)))
        chunkText       == Join(windowSentences, " ")
        chunkStartChar  == IndexOf(text, windowSentences[1])
        chunkEndChar    == chunkStartChar + Len(chunkText)
    IN  [text |-> chunkText,
         startRatio |-> StartRatio(chunkStartChar, Len(text)),
         endRatio |-> EndRatio(chunkEndChar, Len(text))]

RECURSIVE ChunksFromNoStop(_, _, _)
\* variant: the loop runs on to the last sentence
ChunksFromNoStop(text, sentences, i) ==
    IF i >= Len(sentences) THEN <<>>
    ELSE <<WindowChunk(text, sentences, i)>> \o ChunksFromNoStop(text, sentences, i + STRIDE)

RECURSIVE ChunksFrom(_, _, _)
ChunksFrom(text, sentences, i) ==
    IF i >= Len(sentences) THEN <<>>
    ELSE <<WindowChunk(text, sentences, i)>> \o
         (IF i + WINDOW_SIZE >= Len(sentences) THEN <<>>
          ELSE ChunksFrom(text, sentences, i + STRIDE))

chunkTextWithWindow(text) == ChunksFrom(text, Sentences(text), 0)

-----------------------------------------------------------------------------
(* Indexed passages.                                                       *)

EMBEDDING_DIM == 384

\* the record pushed to documentsToIndex for chunk j (0-based) of a segment;
\* of the embedding only its length is kept
MakeDocument(segment, j, chunk, embeddingLength) ==
    [id |-> <<segment.id, j>>,
     segmentId |-> segment.id,
     text |-> chunk.text,
     fullSegmentText |-> segment.text,
     start |-> segment.start,
     end |-> segment.end,
     embedding |-> embeddingLength]

\* variant: no length test
KeepsAnyEmbedding(embeddingLength) == TRUE

\* if (embedding.length !== EMBEDDING_DIM) continue
KeepsEmbedding(embeddingLength) == embeddingLength = EMBEDDING_DIM

\* the documents of one segment when every embedding has the right length
SegmentDocuments(segment) ==
    LET chunks == chunkTextWithWindow(segment.text)
    IN  [j \in 1..Len(chunks) |-> MakeDocument(segment, j - 1, chunks[j], EMBEDDING_DIM)]

-----------------------------------------------------------------------------
(* The ASR collaborator: what Whisper returns for each audio file, as       *)
(* result.chunks ({timestamp: [start, end], text}).                         *)

AsrChunks ==
    [talk    |-> << [timestamp |-> <<0, 5>>,
                     text |-> " It is quiet. Stay calm. Be still. Learn to trust it."],
                    [timestamp |-> <<5, 9>>,
                     text |-> " It is like when a friend is sad."],
                    [timestamp |-> <<9, 12>>,
                     text |-> " Proof is not needed."] >>,
     note    |-> << [timestamp |-> <<0, 3>>, text |-> " Practice by listening."],
                    [timestamp |-> <<3, 4>>, text |-> "  "] >>,
     memo    |-> << [timestamp |-> <<0, 2>>, text |-> " Learn to trust it."],
                    [timestamp |-> <<2, 4>>, text |-> " It is like a game."] >>,
     silence |-> << >>]

HasText(segment) == Len(segment.text) > 0

\* chunk.text.trim() and chunkTextWithWindow(segment.text) of the chunks
\* above, computed once
AsrTexts == UNION {{AsrChunks[f][k].text : k \in 1..Len(AsrChunks[f])} : f \in DOMAIN AsrChunks}
TrimTable == [x \in AsrTexts |-> Trim(x)]
ChunkTable == [x \in {TrimTable[y] : y \in AsrTexts} |-> chunkTextWithWindow(x)]

\* lines 346-357: one segment per chunk whose trimmed text is not empty.
\* generateId() joins the clock and a random suffix; ids are taken as fresh:
\* op numbers the transcribe operation, k the chunk.
AsrSegments(chunks, op) ==
    SelectSeq([k \in 1..Len(chunks) |->
                  [id |-> <<"seg", op, k>>,
                   start |-> chunks[k].timestamp[1],
                   end |-> chunks[k].timestamp[2],
                   text |-> IF chunks[k].text \in AsrTexts
                            THEN TrimTable[chunks[k].text]
                            ELSE Trim(chunks[k].text)]],
              HasText)

RECURSIVE Flatten(_)
Flatten(seqs) == IF Len(seqs) = 0 THEN <<>> ELSE Head(seqs) \o Flatten(Tail(seqs))

Range(f) == {f[x] : x \in DOMAIN f}

\* the queries searched for
SearchQueries == {"How can I improve?", "Give me an example", "How to define it?", "zzz"}

\* the passages the index holds after transcribing the file "talk"
SearchCorpus == Range(Flatten([i \in 1..Len(AsrSegments(AsrChunks.talk, 1)) |->
                                  SegmentDocuments(AsrSegments(AsrChunks.talk, 1)[i])]))

BoostTable ==
    [t \in {d.text : d \in SearchCorpus},
     il \in {detectQuestionIntent(FreshLastIndex, q) : q \in SearchQueries}
        |-> calculateHeuristicBoost(t, il)]

-----------------------------------------------------------------------------
(* Retriever / re-ranker: semanticSearch from the hits on.                 *)

NoError == "null"
NoFile == "null"
NoLimit == <<>>
DefaultLimit == 10

\* message.limit ?? 10
EffectiveLimit(limit) == IF limit = NoLimit THEN DefaultLimit ELSE limit[1]

\* variant: the key is never found
MapIndexMissing(map, segmentId) == 0

\* position in the Map of the entry whose key is segmentId, 0 when absent
MapIndex(map, segmentId) ==
    IF \E i \in 1..Len(map) : map[i].segment.id = segmentId
    THEN CHOOSE i \in 1..Len(map) : map[i].segment.id = segmentId
    ELSE 0

ResultOf(doc, finalScore) ==
    [segment |-> [id |-> doc.segmentId, text |-> doc.fullSegmentText,
                  start |-> doc.start, end |-> doc.end],
     score |-> finalScore]

\* variant: the later hit of a segment always replaces the earlier
ReplacesAlways(finalScore, existingScore) == TRUE

\* if (!existing || finalScore > existing.score)
Replaces(finalScore, existingScore) == finalScore > existingScore

\* calculateHeuristicBoost(doc.text, intents), read from BoostTable when the
\* pair is tabulated there (the values are those of calculateHeuristicBoost:
\* the table only spares recomputing them in every state)
HeuristicBoostOf(text, intentList) ==
    IF <<text, intentList>> \in DOMAIN BoostTable
    THEN BoostTable[text, intentList]
    ELSE calculateHeuristicBoost(text, intentList)

\* variant: the boost is not added
FinalScoreNoBoost(hit, intentList) == hit.score

\* finalScore = hit.score + heuristicBoost
FinalScore(hit, intentList) == hit.score + HeuristicBoostOf(hit.document.text, intentList)

\* one pass of the loop over searchResults.hits; Map.set on a key already
\* present keeps the key's place in the iteration order
RerankStep(map, hit, intentList) ==
    LET doc        == hit.document
        finalScore == FinalScore(hit, intentList)
        at         == MapIndex(map, doc.segmentId)
    IN  IF at = 0 THEN Append(map, ResultOf(doc, finalScore))
        ELSE IF Replaces(finalScore, map[at].score)
             THEN [map EXCEPT ![at] = ResultOf(doc, finalScore)]
             ELSE map

RECURSIVE RerankFrom(_, _, _, _)
RerankFrom(map, hits, intentList, i) ==
    IF i > Len(hits) THEN map
    ELSE RerankFrom(RerankStep(map, hits[i], intentList), hits, intentList, i + 1)

Rerank(hits, intentList) == RerankFrom(<<>>, hits, intentList, 1)

\* insert r into a list already sorted by (b, a) => b.score - a.score, after
\* every entry that does not sort behind it (Array.prototype.sort is stable)
RECURSIVE InsertSorted(_, _)
InsertSorted(sorted, r) ==
    IF Len(sorted) = 0 THEN <<r>>
    ELSE IF r.score > Head(sorted).score THEN <<r>> \o sorted
    ELSE <<Head(sorted)>> \o InsertSorted(Tail(sorted), r)

RECURSIVE SortFrom(_, _, _)
SortFrom(sorted, list, i) ==
    IF i > Len(list) THEN sorted
    ELSE SortFrom(InsertSorted(sorted, list[i]), list, i + 1)

\* .sort((a, b) => b.score - a.score)
SortByScoreDesc(list) == SortFrom(<<>>, list, 1)

\* .slice(0, limit)
Slice(list, limit) == SubSeq(list, 1, Min2(limit, Len(list)))

SortAndSlice(map, limit) == Slice(SortByScoreDesc(map), limit)

\* Math.min(score / (maxScore * 1.1), 0.99) as an exact fraction of tenths:
\* score / (1.1 maxScore) = 10 score / (11 maxScore), above 99/100 exactly when
\* 1000 score > 1089 maxScore.  0 / 0 is NaN, and Math.min(NaN, 0.99) is NaN;
\* score / 0 for score > 0 is Infinity, which the cap brings to 0.99.
\* variant: divides by maxScore alone
NormalisedScoreNoHeadroom(score, maxScore) ==
    IF maxScore = 0 /\ score = 0 THEN NaN
    ELSE IF 100 * score > 99 * maxScore THEN [n |-> 99, d |-> 100]
    ELSE [n |-> score, d |-> maxScore]

NormalisedScore(score, maxScore) ==
    IF maxScore = 0 /\ score = 0 THEN NaN
    ELSE IF 1000 * score > 1089 * maxScore THEN [n |-> 99, d |-> 100]
    ELSE [n |-> 10 * score, d |-> 11 * maxScore]

\* if (results.length > 0 ...) results = results.map(...)
Normalise(list) ==
    IF Len(list) > 0
    THEN [i \in 1..Len(list) |->
            [list[i] EXCEPT !.score = NormalisedScore(list[i].score, list[1].score)]]
    ELSE list

-----------------------------------------------------------------------------
(* Bounds of the model.                                                    *)

MaxQueryFrags == 2     \* fragments a query is made of
MaxIntentCalls == 2          \* calls of detectQuestionIntent on one query
MaxTextFrags == 2      \* fragments a chunk text is made of
MaxHits == 3           \* hits the index engine returns
MaxScore == 3          \* largest fused score of a hit, in tenths
MaxLimit == 2          \* largest limit a request gives

RECURSIVE Concats(_, _)
\* the strings made of at most n fragments
Concats(frags, n) ==
    IF n = 0 THEN {""}
    ELSE LET shorter == Concats(frags, n - 1)
         IN  shorter \cup {a \o b : a \in shorter, b \in frags}

QueryFragments == {"how ", "to", "Who", "m", "Define", " example", "s", "_", "come from "}
Queries == Concats(QueryFragments, MaxQueryFrags)

TextFragments == {"By ", "this ", "LISTENING ", "learn to ", "such as ", "x ",
                  "practice by trust "}
Texts == Concats(TextFragments, MaxTextFrags)

\* the lists detectQuestionIntent can return
IntentLists ==
    {detectQuestionIntent(FreshLastIndex, q) :
        q \in {"", "what is", "origin", "improve", "give me", "who",
               "what is the origin", "define better", "who says such as",
               "how to define the source", "show me who believes what is better",
               "where does the author come from, for instance, and what are ways to"}}

MaxChunkFrags == 5     \* fragments a segment text is made of

\* sentences with each terminator, a closing quote, a run of terminators, no
\* space or two spaces between sentences, a sentence twice, no terminator
ChunkFragments == {"Go.", " It is. ", "Hm ", "No!\"", "?", "  ", "Be"}
ChunkTexts == Concats(ChunkFragments, MaxChunkFrags)

HitsOver(docs) == [document : docs, score : 0..MaxScore]

\* what search() may return: up to MaxHits hits, no document twice
HitLists(docs) ==
    {h \in UNION {[1..n -> HitsOver(docs)] : n \in 0..MaxHits} :
        \A i, j \in 1..Len(h) : i # j => h[i].document # h[j].document}

-----------------------------------------------------------------------------
(* Specifications of the pure functions.                                   *)

IdleIntent ==
    /\ query = "" /\ lastIndex = FreshLastIndex
    /\ intents = <<>> /\ prevIntents = <<>> /\ nCalls = 0
IdleBoost == bText = "" /\ bIntents = <<>> /\ boost = -1
IdleSearch ==
    /\ sPc = "idle" /\ sHits = <<>> /\ sQuery = "" /\ sIntents = <<>> /\ sLimit = NoLimit
    /\ scoredResults = <<>> /\ sliced = <<>> /\ results = <<>>

IdleChunk == cText = "" /\ cPc = "idle" /\ cChunks = <<>>

\* the worker and the hook before the hook is mounted
IdleSystem ==
    /\ asrPipeline = FALSE /\ embedderPipeline = FALSE /\ oramaDb = 0 /\ dbs = <<>>
    /\ tasks = {} /\ inbox = <<>> /\ outbox = <<>> /\ faults = 0
    /\ began = <<>> /\ skipped = {} /\ hist = {}
    /\ isModelReady = FALSE /\ isTranscribing = FALSE /\ isSearching = FALSE
    /\ segments = <<>> /\ searchResults = <<>> /\ searchQuery = "" /\ error = NoError
    /\ audioFile = NoFile /\ loads = {} /\ effectPending = FALSE
    /\ nextReq = 1 /\ calls = 0 /\ budget = 0

\* ---- detectQuestionIntent
InitIntent ==
    /\ query \in Queries
    /\ lastIndex = FreshLastIndex
    /\ intents = <<>> /\ prevIntents = <<>> /\ nCalls = 0
    /\ IdleBoost /\ IdleSearch /\ IdleChunk /\ IdleSystem

CallDetectQuestionIntent ==
    /\ nCalls < MaxIntentCalls
    /\ intents' = detectQuestionIntent(lastIndex, query)
    /\ lastIndex' = LastIndexAfter(lastIndex, query)
    /\ prevIntents' = intents
    /\ nCalls' = nCalls + 1
    /\ UNCHANGED <<query, boostVars, searchVars, chunkVars, systemVars>>

NextIntent == CallDetectQuestionIntent
SpecIntent == InitIntent /\ [][NextIntent]_vars

\* ---- calculateHeuristicBoost
InitBoost ==
    /\ bText \in Texts
    /\ bIntents \in IntentLists
    /\ boost = -1
    /\ IdleIntent /\ IdleSearch /\ IdleChunk /\ IdleSystem

CallCalculateHeuristicBoost ==
    /\ boost = -1
    /\ boost' = calculateHeuristicBoost(bText, bIntents)
    /\ UNCHANGED <<bText, bIntents, intentVars, searchVars, chunkVars, systemVars>>

NextBoost == CallCalculateHeuristicBoost
SpecBoost == InitBoost /\ [][NextBoost]_vars

\* ---- semanticSearch, from the hits of the index engine on
InitSearch ==
    /\ sPc = "hits"
    /\ sQuery \in SearchQueries
    /\ sIntents = detectQuestionIntent(FreshLastIndex, sQuery)
    /\ sHits \in HitLists(SearchCorpus)
    /\ sLimit \in {NoLimit} \cup {<<l>> : l \in 1..MaxLimit}
    /\ scoredResults = <<>> /\ sliced = <<>> /\ results = <<>>
    /\ IdleIntent /\ IdleBoost /\ IdleChunk /\ IdleSystem

\* lines 430-452
RerankHits ==
    /\ sPc = "hits"
    /\ scoredResults' = Rerank(sHits, sIntents)
    /\ sPc' = "ranked"
    /\ UNCHANGED <<sHits, sQuery, sIntents, sLimit, sliced, results, intentVars, boostVars, chunkVars, systemVars>>

\* lines 454-456
SortSliceResults ==
    /\ sPc = "ranked"
    /\ sliced' = SortAndSlice(scoredResults, EffectiveLimit(sLimit))
    /\ sPc' = "sliced"
    /\ UNCHANGED <<sHits, sQuery, sIntents, sLimit, scoredResults, results, intentVars, boostVars, chunkVars, systemVars>>

\* lines 458-466
NormaliseAndPost ==
    /\ sPc = "sliced"
    /\ results' = Normalise(sliced)
    /\ sPc' = "posted"
    /\ UNCHANGED <<sHits, sQuery, sIntents, sLimit, scoredResults, sliced, intentVars, boostVars, chunkVars, systemVars>>

NextSearch == RerankHits \/ SortSliceResults \/ NormaliseAndPost
SpecSearch == InitSearch /\ [][NextSearch]_vars

\* ---- chunkTextWithWindow
InitChunk ==
    /\ cText \in ChunkTexts
    /\ cPc = "text" /\ cChunks = <<>>
    /\ IdleIntent /\ IdleBoost /\ IdleSearch /\ IdleSystem

CallChunkTextWithWindow ==
    /\ cPc = "text"
    /\ cChunks' = chunkTextWithWindow(cText)
    /\ cPc' = "done"
    /\ UNCHANGED <<cText, intentVars, boostVars, searchVars, systemVars>>

NextChunk == CallChunkTextWithWindow
SpecChunk == InitChunk /\ [][NextChunk]_vars

-----------------------------------------------------------------------------
(* The worker.  A handler runs until its next await; the invocation then   *)
(* waits in tasks until the awaited collaborator answers, and the answers  *)
(* of different invocations come in any order.  Progress notifications and *)
(* the hook's progress and device fields are left out: nothing reads them. *)

MaxFaults == 1         \* failures of the collaborators in one run
MaxApiCalls == 2       \* calls of loadAudio, search, clearAll and setSearchQuery
MaxSessionCalls == 3   \* the same, in a longer session (SpecSession)
MaxEngineHits == 2     \* hits the index engine returns to one search

Files == {"note", "memo", "silence"}
EmbeddingLengths == {EMBEDDING_DIM, 256}
EngineScores == {1, 2}
TypedQueries == {"How can I improve?", "trust", " "}

Post(box, m) == Append(box, m)

\* variant: every error is labelled 'index'
ErrorMessageIndex(operation, message, req) ==
    [type |-> "error", operation |-> "index", message |-> message, req |-> req]

\* postMessage({ type: 'error', message: error.message, operation }); the
\* message text is kept as the name of what threw
ErrorMessage(operation, message, req) ==
    [type |-> "error", operation |-> operation, message |-> message, req |-> req]

\* history: a request was taken from the inbox, the models loaded or not
Handled(m, loaded) == [ev |-> "handled", req |-> m.req, type |-> m.type, loaded |-> loaded]

\* history: the collaborator awaited by invocation t threw
\* the hook handled the 'cleared' message m
Cleared(m) == [ev |-> "cleared", req |-> m.req]
\* the hook handled the 'search-results' message m
Answered(m) == [ev |-> "results", req |-> m.req, query |-> m.query]
Failed(t) == [ev |-> "failed", req |-> t.req, kind |-> t.kind, stage |-> t.pc]

\* a collaborator may fail while the fault budget lasts
MayFail == faults < MaxFaults

Finish(t) == tasks \ {t}
Continue(t, t2) == (tasks \ {t}) \cup {t2}

\* ---- self.onmessage, case 'load': loadModels up to its first await
ReceiveLoad ==
    /\ inbox # <<>> /\ Head(inbox).type = "load"
    /\ inbox' = Tail(inbox)
    /\ tasks' = tasks \cup {[kind |-> "load", pc |-> "gpu", req |-> Head(inbox).req]}
    /\ UNCHANGED <<asrPipeline, embedderPipeline, oramaDb, dbs, faults, outbox, hookVars, pureVars, began, skipped, hist>>

\* loadModels: one awaited step answers
LoadStep(t) ==
    /\ t.kind = "load"
    /\ CASE t.pc = "gpu" ->
              /\ tasks' = Continue(t, [t EXCEPT !.pc = "asr"])
              /\ UNCHANGED <<asrPipeline, embedderPipeline, oramaDb, dbs, outbox>>
         [] t.pc = "asr" ->
              /\ asrPipeline' = TRUE
              /\ tasks' = Continue(t, [t EXCEPT !.pc = "embedder"])
              /\ UNCHANGED <<embedderPipeline, oramaDb, dbs, outbox>>
         [] t.pc = "embedder" ->
              /\ embedderPipeline' = TRUE
              /\ tasks' = Continue(t, [t EXCEPT !.pc = "create"])
              /\ UNCHANGED <<asrPipeline, oramaDb, dbs, outbox>>
         [] t.pc = "create" ->
              /\ dbs' = Append(dbs, {})
              /\ oramaDb' = Len(dbs) + 1
              /\ outbox' = Post(outbox, [type |-> "ready", req |-> t.req])
              /\ tasks' = Finish(t)
              /\ UNCHANGED <<asrPipeline, embedderPipeline>>
    /\ UNCHANGED <<faults, inbox, hookVars, pureVars, began, skipped, hist>>

\* loadModels: an awaited step throws, the catch posts the error
LoadFail(t) ==
    /\ t.kind = "load" /\ t.pc \in {"asr", "embedder"}
    /\ MayFail /\ faults' = faults + 1
    /\ outbox' = Post(outbox, ErrorMessage("load", t.pc, t.req))
    /\ hist' = hist \cup {Failed(t)}
    /\ tasks' = Finish(t)
    /\ UNCHANGED <<asrPipeline, embedderPipeline, oramaDb, dbs, inbox, hookVars, pureVars, began, skipped>>

\* variant: no test of the models
ModelsTakenLoaded == TRUE

ModelsLoaded == asrPipeline /\ embedderPipeline /\ oramaDb # 0

\* ---- case 'transcribe': transcribeAudio up to the await of asrPipeline
ReceiveTranscribe ==
    /\ inbox # <<>> /\ Head(inbox).type = "transcribe"
    /\ inbox' = Tail(inbox)
    /\ IF ModelsLoaded
       THEN /\ tasks' = tasks \cup {[kind |-> "transcribe", pc |-> "asr",
                                     req |-> Head(inbox).req, file |-> Head(inbox).file]}
            /\ UNCHANGED outbox
       ELSE /\ outbox' = Post(outbox, ErrorMessage("transcribe", "Models not loaded", Head(inbox).req))
            /\ UNCHANGED tasks
    /\ hist' = hist \cup {Handled(Head(inbox), asrPipeline /\ embedderPipeline /\ oramaDb # 0)}
    /\ began' = [r \in DOMAIN began \cup {Head(inbox).req} |->
                    IF r = Head(inbox).req THEN oramaDb ELSE began[r]]
    /\ UNCHANGED <<asrPipeline, embedderPipeline, oramaDb, dbs, faults, hookVars, pureVars, skipped>>

\* the (segment, j, chunk) triples in the order the two loops embed them
EmbedWork(segs) ==
    Flatten([i \in 1..Len(segs) |->
                LET chunks == IF segs[i].text \in DOMAIN ChunkTable
                              THEN ChunkTable[segs[i].text]
                              ELSE chunkTextWithWindow(segs[i].text)
                IN  [j \in 1..Len(chunks) |->
                        [segment |-> segs[i], j |-> j - 1, chunk |-> chunks[j]]]])

\* insertMultiple(oramaDb, ...): the index is read from the module variable
\* when the call is made
InsertTarget == oramaDb

\* the invocation after the loops' next step: it awaits the next embedding,
\* or, the loops done, has called insertMultiple(oramaDb, documentsToIndex)
\* with the index that is current at that call
AwaitEmbedOrInsert(t, segs, work, docs) ==
    IF work # <<>>
    THEN [kind |-> "transcribe", pc |-> "embed", req |-> t.req, file |-> t.file,
          segments |-> segs, work |-> work, documentsToIndex |-> docs]
    ELSE [kind |-> "transcribe", pc |-> "insert", req |-> t.req, file |-> t.file,
          segments |-> segs, db |-> InsertTarget, documentsToIndex |-> docs]

\* asrPipeline answers: lines 346-373
AsrResolve(t) ==
    /\ t.kind = "transcribe" /\ t.pc = "asr"
    /\ LET segs == AsrSegments(AsrChunks[t.file], t.req)
       IN  tasks' = Continue(t, AwaitEmbedOrInsert(t, segs, EmbedWork(segs), <<>>))
    /\ UNCHANGED <<asrPipeline, embedderPipeline, oramaDb, dbs, faults, queueVars, hookVars, pureVars, began, skipped, hist>>

\* variant: each passage is inserted as soon as it is embedded
EmbedResolveInserting(t, len) ==
    /\ t.kind = "transcribe" /\ t.pc = "embed"
    /\ LET w    == Head(t.work)
           docs == IF KeepsEmbedding(len)
                   THEN Append(t.documentsToIndex, MakeDocument(w.segment, w.j, w.chunk, len))
                   ELSE t.documentsToIndex
       IN  /\ tasks' = Continue(t, AwaitEmbedOrInsert(t, t.segments, Tail(t.work), docs))
           /\ skipped' = IF KeepsEmbedding(len) THEN skipped
                          ELSE skipped \cup {<<w.segment.id, w.j>>}
           /\ dbs' = [dbs EXCEPT ![oramaDb] = @ \cup Range(docs)]
    /\ UNCHANGED <<asrPipeline, embedderPipeline, oramaDb, faults, queueVars, hookVars, pureVars, began, hist>>

\* embedderPipeline answers with a vector of some length: lines 374-392
EmbedResolve(t, len) ==
    /\ t.kind = "transcribe" /\ t.pc = "embed"
    /\ LET w    == Head(t.work)
           docs == IF KeepsEmbedding(len)
                   THEN Append(t.documentsToIndex, MakeDocument(w.segment, w.j, w.chunk, len))
                   ELSE t.documentsToIndex
       IN  /\ tasks' = Continue(t, AwaitEmbedOrInsert(t, t.segments, Tail(t.work), docs))
           /\ skipped' = IF KeepsEmbedding(len) THEN skipped
                          ELSE skipped \cup {<<w.segment.id, w.j>>}
    /\ UNCHANGED <<asrPipeline, embedderPipeline, oramaDb, dbs, faults, queueVars, hookVars, pureVars, began, hist>>

\* insertMultiple answers: the documents are in the index it was called
\* with, and the result is posted (lines 394-395)
InsertResolve(t) ==
    /\ t.kind = "transcribe" /\ t.pc = "insert"
    /\ dbs' = [dbs EXCEPT ![t.db] = @ \cup Range(t.documentsToIndex)]
    /\ outbox' = Post(outbox, [type |-> "transcription-result", req |-> t.req,
                               segments |-> t.segments])
    /\ tasks' = Finish(t)
    /\ UNCHANGED <<asrPipeline, embedderPipeline, oramaDb, faults, inbox, hookVars, pureVars, began, skipped, hist>>

\* the ASR, the embedder or insertMultiple throws: lines 397-399
TranscribeFail(t) ==
    /\ t.kind = "transcribe"
    /\ MayFail /\ faults' = faults + 1
    /\ outbox' = Post(outbox, ErrorMessage("transcribe", t.pc, t.req))
    /\ hist' = hist \cup {Failed(t)}
    /\ tasks' = Finish(t)
    /\ UNCHANGED <<asrPipeline, embedderPipeline, oramaDb, dbs, inbox, hookVars, pureVars, began, skipped>>

\* ---- case 'search': semanticSearch up to the await of embedderPipeline
ReceiveSearch ==
    /\ inbox # <<>> /\ Head(inbox).type = "search"
    /\ inbox' = Tail(inbox)
    /\ IF embedderPipeline /\ oramaDb # 0
       THEN /\ tasks' = tasks \cup
                    {[kind |-> "search", pc |-> "embed", req |-> Head(inbox).req,
                      query |-> Head(inbox).query,
                      limit |-> EffectiveLimit(Head(inbox).limit),
                      intents |-> detectQuestionIntent(FreshLastIndex, Head(inbox).query)]}
            /\ UNCHANGED outbox
       ELSE /\ outbox' = Post(outbox, ErrorMessage("search", "Models not ready", Head(inbox).req))
            /\ UNCHANGED tasks
    /\ hist' = hist \cup {Handled(Head(inbox), asrPipeline /\ embedderPipeline /\ oramaDb # 0)}
    /\ UNCHANGED <<asrPipeline, embedderPipeline, oramaDb, dbs, faults, hookVars, pureVars, began, skipped>>

\* limit: 20 of the engine's search (line 424)
EngineLimit == 20

\* the query is embedded; search(oramaDb, ...) is called with the current index
SearchEmbedResolve(t) ==
    /\ t.kind = "search" /\ t.pc = "embed"
    /\ tasks' = Continue(t, [kind |-> "search", pc |-> "search", req |-> t.req,
                             query |-> t.query, limit |-> t.limit,
                             intents |-> t.intents, db |-> oramaDb,
                             requested |-> EngineLimit])
    /\ UNCHANGED <<asrPipeline, embedderPipeline, oramaDb, dbs, faults, queueVars, hookVars, pureVars, began, skipped, hist>>

\* what the engine may answer from an index: hits for documents it holds
EngineHits(docs) ==
    {h \in UNION {[1..n -> [document : docs, score : EngineScores]] : n \in 0..MaxEngineHits} :
        \A i, j \in 1..Len(h) : i # j => h[i].document # h[j].document}

\* search answers: lines 428-466
SearchResolve(t, hits) ==
    /\ t.kind = "search" /\ t.pc = "search"
    /\ Len(hits) <= t.requested
    /\ outbox' = Post(outbox, [type |-> "search-results", req |-> t.req, query |-> t.query,
                               hits |-> hits,
                               results |-> Normalise(SortAndSlice(Rerank(hits, t.intents), t.limit))])
    /\ tasks' = Finish(t)
    /\ UNCHANGED <<asrPipeline, embedderPipeline, oramaDb, dbs, faults, inbox, hookVars, pureVars, began, skipped, hist>>

\* variant: the failed search also posts an empty result list
SearchFailAndAnswer(t) ==
    /\ t.kind = "search"
    /\ MayFail /\ faults' = faults + 1
    /\ outbox' = Post(Post(outbox, ErrorMessage("search", t.pc, t.req)),
                      [type |-> "search-results", req |-> t.req, query |-> t.query,
                       hits |-> <<>>, results |-> <<>>])
    /\ hist' = hist \cup {Failed(t)}
    /\ tasks' = Finish(t)
    /\ UNCHANGED <<asrPipeline, embedderPipeline, oramaDb, dbs, inbox, hookVars, pureVars, began, skipped>>

\* the embedder or the engine throws: lines 468-470
SearchFail(t) ==
    /\ t.kind = "search"
    /\ MayFail /\ faults' = faults + 1
    /\ outbox' = Post(outbox, ErrorMessage("search", t.pc, t.req))
    /\ hist' = hist \cup {Failed(t)}
    /\ tasks' = Finish(t)
    /\ UNCHANGED <<asrPipeline, embedderPipeline, oramaDb, dbs, inbox, hookVars, pureVars, began, skipped>>

\* ---- case 'clear': clearDatabase up to the await of create
ReceiveClear ==
    /\ inbox # <<>> /\ Head(inbox).type = "clear"
    /\ inbox' = Tail(inbox)
    /\ tasks' = tasks \cup {[kind |-> "clear", pc |-> "create", req |-> Head(inbox).req]}
    /\ UNCHANGED <<asrPipeline, embedderPipeline, oramaDb, dbs, faults, outbox, hookVars, pureVars, began, skipped, hist>>

\* variant: the fresh index starts with the documents of the old one
ClearResolveKeeping(t) ==
    /\ t.kind = "clear" /\ t.pc = "create"
    /\ dbs' = Append(dbs, IF oramaDb = 0 THEN {} ELSE dbs[oramaDb])
    /\ oramaDb' = Len(dbs) + 1
    /\ outbox' = Post(outbox, [type |-> "cleared", req |-> t.req])
    /\ tasks' = Finish(t)
    /\ UNCHANGED <<asrPipeline, embedderPipeline, faults, inbox, hookVars, pureVars, began, skipped, hist>>

\* create answers: oramaDb is the fresh index, 'cleared' is posted
ClearResolve(t) ==
    /\ t.kind = "clear" /\ t.pc = "create"
    /\ dbs' = Append(dbs, {})
    /\ oramaDb' = Len(dbs) + 1
    /\ outbox' = Post(outbox, [type |-> "cleared", req |-> t.req])
    /\ tasks' = Finish(t)
    /\ UNCHANGED <<asrPipeline, embedderPipeline, faults, inbox, hookVars, pureVars, began, skipped, hist>>

-----------------------------------------------------------------------------
(* The hook.  Every function reads the state of the latest render; state   *)
(* set in one handler is rendered before the next event is handled.        *)

PostToWorker(m) == inbox' = Append(inbox, m)

\* setSearchQuery(q) schedules the effect of lines 48-52 when q is a change
SetSearchQuery(q) ==
    /\ searchQuery' = q
    /\ effectPending' = (effectPending \/ q # searchQuery)

CanCall == calls < budget

\* loadAudio up to the await of the audio metadata (lines 193-216)
loadAudio(file) ==
    /\ CanCall /\ calls' = calls + 1 /\ UNCHANGED budget
    /\ IF ~isModelReady
       THEN /\ error' = "Please wait for models to load"
            /\ UNCHANGED <<isTranscribing, segments, searchResults, searchQuery,
                           effectPending, loads>>
       ELSE /\ error' = NoError
            /\ isTranscribing' = TRUE
            /\ segments' = <<>>
            /\ searchResults' = <<>>
            /\ SetSearchQuery("")
            /\ loads' = loads \cup {[file |-> file, pc |-> "metadata", call |-> calls]}
    /\ UNCHANGED <<isModelReady, isSearching, audioFile, nextReq, workerVars, queueVars, pureVars>>

\* onloadedmetadata: lines 218-232, up to the await of decodeAudioFile
LoadAudioMetadata(l) ==
    /\ l.pc = "metadata"
    /\ audioFile' = l.file
    /\ loads' = (loads \ {l}) \cup {[l EXCEPT !.pc = "decode"]}
    /\ UNCHANGED <<isModelReady, isTranscribing, isSearching, segments, searchResults,
                   searchQuery, error, effectPending, nextReq, calls, budget,
                   workerVars, queueVars, pureVars>>

\* audio.onerror: the promise of line 213 rejects and loadAudio ends there
LoadAudioMetadataFail(l) ==
    /\ l.pc = "metadata"
    /\ MayFail /\ faults' = faults + 1
    /\ loads' = loads \ {l}
    /\ UNCHANGED <<hookState, nextReq, calls, budget, asrPipeline, embedderPipeline, oramaDb, dbs,
                   tasks, queueVars, pureVars, began, skipped, hist>>

\* decodeAudioFile answers: the samples are posted (lines 234-245)
LoadAudioDecoded(l) ==
    /\ l.pc = "decode"
    /\ PostToWorker([type |-> "transcribe", req |-> nextReq, file |-> l.file])
    /\ nextReq' = nextReq + 1
    /\ loads' = loads \ {l}
    /\ UNCHANGED <<hookState, calls, budget, workerVars, outbox, pureVars>>

\* decodeAudioFile throws: lines 246-249
LoadAudioDecodeFail(l) ==
    /\ l.pc = "decode"
    /\ MayFail /\ faults' = faults + 1
    /\ isTranscribing' = FALSE
    /\ error' = "Failed to decode audio"
    /\ loads' = loads \ {l}
    /\ UNCHANGED <<isModelReady, isSearching, segments, searchResults, searchQuery,
                   audioFile, effectPending, nextReq, calls, budget,
                   asrPipeline, embedderPipeline, oramaDb, dbs, tasks, queueVars, pureVars, began, skipped, hist>>

HookSearchLimit == 20

\* search (lines 253-273)
search(q) ==
    /\ CanCall /\ calls' = calls + 1 /\ UNCHANGED budget
    /\ IF Trim(q) = ""
       THEN /\ searchResults' = <<>>
            /\ UNCHANGED <<error, isSearching, searchQuery, effectPending, inbox, nextReq>>
       ELSE IF Len(segments) = 0
       THEN /\ error' = "No transcription available"
            /\ UNCHANGED <<searchResults, isSearching, searchQuery, effectPending, inbox, nextReq>>
       ELSE /\ error' = NoError
            /\ isSearching' = TRUE
            /\ SetSearchQuery(q)
            /\ PostToWorker([type |-> "search", req |-> nextReq, query |-> Trim(q),
                             limit |-> <<HookSearchLimit>>])
            /\ nextReq' = nextReq + 1
            /\ UNCHANGED searchResults
    /\ UNCHANGED <<isModelReady, isTranscribing, segments, audioFile, loads,
                   workerVars, outbox, pureVars>>

\* clearSearch (lines 276-279)
clearSearch ==
    /\ CanCall /\ calls' = calls + 1 /\ UNCHANGED budget
    /\ searchResults' = <<>>
    /\ SetSearchQuery("")
    /\ UNCHANGED <<isModelReady, isTranscribing, isSearching, segments, error, audioFile,
                   loads, nextReq, workerVars, queueVars, pureVars>>

\* clearAll (lines 282-284)
clearAll ==
    /\ CanCall /\ calls' = calls + 1 /\ UNCHANGED budget
    /\ PostToWorker([type |-> "clear", req |-> nextReq])
    /\ nextReq' = nextReq + 1
    /\ UNCHANGED <<hookState, loads, workerVars, outbox, pureVars>>

\* setSearchQuery, as the search bar calls it on every keystroke
setSearchQuery(q) ==
    /\ CanCall /\ calls' = calls + 1 /\ UNCHANGED budget
    /\ SetSearchQuery(q)
    /\ UNCHANGED <<isModelReady, isTranscribing, isSearching, segments, searchResults,
                   error, audioFile, loads, nextReq, workerVars, queueVars, pureVars>>

\* the effect of lines 48-52
SearchQueryEffect ==
    /\ effectPending
    /\ effectPending' = FALSE
    /\ searchResults' = IF Trim(searchQuery) = "" THEN <<>> ELSE searchResults
    /\ UNCHANGED <<isModelReady, isTranscribing, isSearching, segments, searchQuery,
                   error, audioFile, loads, nextReq, calls, budget, workerVars, queueVars, pureVars>>

\* ---- handleWorkerMessage (lines 64-122), one action per case
Handles(type) == outbox # <<>> /\ Head(outbox).type = type /\ outbox' = Tail(outbox)

HandleReady ==
    /\ Handles("ready")
    /\ isModelReady' = TRUE
    /\ error' = NoError
    /\ UNCHANGED <<isTranscribing, isSearching, segments, searchResults, searchQuery,
                   audioFile, effectPending, loads, nextReq, calls, budget, workerVars, inbox, pureVars>>

HandleTranscriptionResult ==
    /\ Handles("transcription-result")
    /\ isTranscribing' = FALSE
    /\ segments' = Head(outbox).segments
    /\ UNCHANGED <<isModelReady, isSearching, searchResults, searchQuery, error,
                   audioFile, effectPending, loads, nextReq, calls, budget, workerVars, inbox, pureVars>>

HandleSearchResults ==
    /\ Handles("search-results")
    /\ isSearching' = FALSE
    /\ searchResults' = Head(outbox).results
    /\ hist' = hist \cup {Answered(Head(outbox))}
    /\ UNCHANGED <<isModelReady, isTranscribing, segments, searchQuery, error,
                   audioFile, effectPending, loads, nextReq, calls, budget, inbox, pureVars,
                   asrPipeline, embedderPipeline, oramaDb, dbs, tasks, faults, began, skipped>>

HandleCleared ==
    /\ Handles("cleared")
    /\ segments' = <<>>
    /\ searchResults' = <<>>
    /\ SetSearchQuery("")
    /\ audioFile' = NoFile
    /\ hist' = hist \cup {Cleared(Head(outbox))}
    /\ UNCHANGED <<isModelReady, isTranscribing, isSearching, error,
                   loads, nextReq, calls, budget, inbox, pureVars,
                   asrPipeline, embedderPipeline, oramaDb, dbs, tasks, faults, began, skipped>>

HandleError ==
    /\ Handles("error")
    /\ error' = "worker error"
    /\ isTranscribing' = FALSE
    /\ isSearching' = FALSE
    /\ UNCHANGED <<isModelReady, segments, searchResults, searchQuery,
                   audioFile, effectPending, loads, nextReq, calls, budget, workerVars, inbox, pureVars>>

-----------------------------------------------------------------------------
(* The system: the hook mounted (its worker made and 'load' posted), the   *)
(* worker's models not loaded yet.                                         *)

Mounted ==
    /\ asrPipeline = FALSE /\ embedderPipeline = FALSE /\ oramaDb = 0 /\ dbs = <<>>
    /\ tasks = {} /\ faults = 0 /\ began = <<>> /\ skipped = {} /\ hist = {}
    /\ inbox = <<[type |-> "load", req |-> 0]>> /\ outbox = <<>>
    /\ isModelReady = FALSE /\ isTranscribing = FALSE /\ isSearching = FALSE
    /\ segments = <<>> /\ searchResults = <<>> /\ searchQuery = "" /\ error = NoError
    /\ audioFile = NoFile /\ loads = {} /\ effectPending = FALSE
    /\ nextReq = 1 /\ calls = 0
    /\ IdleIntent /\ IdleBoost /\ IdleSearch /\ IdleChunk

Init == Mounted /\ budget = MaxApiCalls

\* the same, the user making one more call
InitSession == Mounted /\ budget = MaxSessionCalls

WorkerNext ==
    \/ ReceiveLoad
    \/ ReceiveTranscribe
    \/ ReceiveSearch
    \/ ReceiveClear
    \/ \E t \in tasks : LoadStep(t)
    \/ \E t \in tasks : LoadFail(t)
    \/ \E t \in tasks : AsrResolve(t)
    \/ \E t \in tasks : \E len \in EmbeddingLengths : EmbedResolve(t, len)
    \/ \E t \in tasks : InsertResolve(t)
    \/ \E t \in tasks : TranscribeFail(t)
    \/ \E t \in tasks : SearchEmbedResolve(t)
    \/ \E t \in tasks : t.kind = "search" /\ t.pc = "search" /\
                        \E hits \in EngineHits(dbs[t.db]) : SearchResolve(t, hits)
    \/ \E t \in tasks : SearchFail(t)
    \/ \E t \in tasks : ClearResolve(t)

HookNext ==
    \/ \E file \in Files : loadAudio(file)
    \/ \E l \in loads : LoadAudioMetadata(l)
    \/ \E l \in loads : LoadAudioMetadataFail(l)
    \/ \E l \in loads : LoadAudioDecoded(l)
    \/ \E l \in loads : LoadAudioDecodeFail(l)
    \/ \E q \in TypedQueries : search(q)
    \/ clearSearch
    \/ clearAll
    \/ \E q \in TypedQueries : setSearchQuery(q)
    \/ SearchQueryEffect
    \/ HandleReady
    \/ HandleTranscriptionResult
    \/ HandleSearchResults
    \/ HandleCleared
    \/ HandleError

Next == WorkerNext \/ HookNext

Spec == Init /\ [][Next]_vars

SpecSession == InitSession /\ [][Next]_vars

\* What runs without the user: the worker's event loop handles the messages
\* in its queue and its collaborators answer every await (by a value or by a
\* failure); the page's event loop delivers the worker's messages, the audio
\* element's and the decoder's events, and React runs the pending effect.
Scheduled ==
    \/ WorkerNext
    \/ \E l \in loads : LoadAudioMetadata(l) \/ LoadAudioMetadataFail(l)
    \/ \E l \in loads : LoadAudioDecoded(l) \/ LoadAudioDecodeFail(l)
    \/ SearchQueryEffect
    \/ HandleReady \/ HandleTranscriptionResult \/ HandleSearchResults
    \/ HandleCleared \/ HandleError

SpecLive == Init /\ [][Next]_vars /\ WF_vars(Scheduled)

-----------------------------------------------------------------------------
(* The worker on its own: after 'load', a client posts any requests in any *)
(* order, and nothing takes the worker's messages out of outbox, which so  *)
(* holds every message the worker has posted.                              *)

MaxRequests == 2       \* requests a client posts after 'load'

WorkerQueries == {"How can I improve?"}

\* the requests of WorkerInputMessage, numbered req
ClientMessages(req) ==
    {[type |-> "transcribe", req |-> req, file |-> f] : f \in Files}
    \cup {[type |-> "search", req |-> req, query |-> q, limit |-> l] :
             q \in WorkerQueries, l \in {NoLimit, <<1>>}}
    \cup {[type |-> "clear", req |-> req]}

ClientPost(m) ==
    /\ nextReq <= MaxRequests
    /\ inbox' = Append(inbox, m)
    /\ nextReq' = nextReq + 1
    /\ UNCHANGED <<workerVars, outbox, hookState, loads, calls, budget, pureVars>>

ClientNext == \E m \in ClientMessages(nextReq) : ClientPost(m)

NextWorker == WorkerNext \/ ClientNext

SpecWorker == Init /\ [][NextWorker]_vars

-----------------------------------------------------------------------------
(* The worker with a client that indexes and resets one operation after    *)
(* the other: it posts a transcribe or a clear request when the worker has *)
(* answered everything before.                                             *)

MaxReindexes == 3

InitReindex == Mounted /\ budget = MaxReindexes

ReindexPost(m) ==
    /\ inbox = <<>> /\ tasks = {}
    /\ m.type \in {"transcribe", "clear"}
    /\ nextReq <= budget
    /\ inbox' = Append(inbox, m)
    /\ nextReq' = nextReq + 1
    /\ UNCHANGED <<workerVars, outbox, hookState, loads, calls, budget, pureVars>>

NextReindex ==
    \/ ReceiveLoad
    \/ ReceiveTranscribe
    \/ ReceiveClear
    \/ \E t \in tasks : LoadStep(t)
    \/ \E t \in tasks : LoadFail(t)
    \/ \E t \in tasks : AsrResolve(t)
    \/ \E t \in tasks : \E len \in EmbeddingLengths : EmbedResolve(t, len)
    \/ \E t \in tasks : InsertResolve(t)
    \/ \E t \in tasks : TranscribeFail(t)
    \/ \E t \in tasks : ClearResolve(t)
    \/ \E m \in ClientMessages(nextReq) : ReindexPost(m)

SpecReindex == InitReindex /\ [][NextReindex]_vars

-----------------------------------------------------------------------------
(* Comparison of scores as JavaScript compares numbers: every comparison   *)
(* with NaN is false.                                                      *)

NumGt(a, b) == a.d > 0 /\ b.d > 0 /\ a.n * b.d > b.n * a.d
NumGeq(a, b) == a.d > 0 /\ b.d > 0 /\ a.n * b.d >= b.n * a.d
NumLt(a, b) == NumGt(b, a)
Zero == [n |-> 0, d |-> 1]
One == [n |-> 1, d |-> 1]

-----------------------------------------------------------------------------
(* Claims about detectQuestionIntent (SpecIntent).                         *)

\* the pattern of a label matches the query somewhere
PatternMatches(type, q) ==
    \E i \in 1..Len(q) : \E k \in 1..Len(QUESTION_PATTERNS[type].alts) :
        AltMatchesAt(QUESTION_PATTERNS[type].alts[k], q, ToLowerCase(q), i)

MatchingLabels(q) == SelectSeq(Labels, LAMBDA type : PatternMatches(type, q))

\* C9: every call of detectQuestionIntent returns exactly the labels whose
\* pattern matches the query, in the order definition, origin, howTo, example,
\* author; it returns <<general>> exactly when no pattern matches; the result
\* is never empty and never holds general beside another label; and a second
\* call on the same query returns what the first returned.
C9_IntentLabels ==
    nCalls > 0 =>
        /\ intents # <<>>
        /\ (MatchingLabels(query) # <<>> => intents = MatchingLabels(query))
        /\ (intents = <<"general">>) <=> (MatchingLabels(query) = <<>>)
        /\ (\E i \in 1..Len(intents) : intents[i] = "general") => Len(intents) = 1
        /\ (nCalls > 1 => intents = prevIntents)

\* a query with two intents has been classified twice
C9_Witness == nCalls = 2 /\ Len(intents) = 2 /\ prevIntents = intents

-----------------------------------------------------------------------------
(* Claims about calculateHeuristicBoost (SpecBoost).                       *)

\* the (intent, indicator phrase of that intent) pairs whose phrase occurs in
\* the lower-cased text
MatchedPairs(text, intentList) ==
    {p \in (1..Len(intentList)) \X (1..6) :
        /\ intentList[p[1]] \in DOMAIN ANSWER_INDICATORS
        /\ p[2] <= Len(ANSWER_INDICATORS[intentList[p[1]]])
        /\ Includes(ToLowerCase(text), ANSWER_INDICATORS[intentList[p[1]]][p[2]])}

\* C5: the boost returned is min(0.3, 0.1 k), k the number of matched
\* (intent, phrase) pairs, and so lies in [0, 0.3] (in tenths: min(3, k)).
C5_BoostValue ==
    boost # -1 =>
        LET k == Cardinality(MatchedPairs(bText, bIntents))
        IN  /\ boost = (IF k <= 3 THEN k ELSE 3)
            /\ 0 <= boost /\ boost <= 3

\* a text with more than three matched pairs, found through lower-casing
C5_Witness ==
    /\ boost = 3
    /\ Cardinality(MatchedPairs(bText, bIntents)) > 3
    /\ bText # ToLowerCase(bText)

-----------------------------------------------------------------------------
(* Claims about the re-ranking pipeline (SpecSearch).                      *)

Ranked == sPc \in {"ranked", "sliced", "posted"}
Posted == sPc = "posted"

\* the candidate hits of a segment
HitsOf(segmentId) == {i \in 1..Len(sHits) : sHits[i].document.segmentId = segmentId}
HitSegments == {sHits[i].document.segmentId : i \in 1..Len(sHits)}

\* fused score + boost of hit i
RawFinal(i) == sHits[i].score + HeuristicBoostOf(sHits[i].document.text, sIntents)

\* the transcript segments the corpus was indexed from
CorpusSegments == Range(AsrSegments(AsrChunks.talk, 1))

\* C1: no two entries of the returned list have the same segment.id.
C1_NoDuplicateSegment ==
    Posted => \A i, j \in 1..Len(results) :
                 i # j => results[i].segment.id # results[j].segment.id

\* two chunk hits of one segment were returned by the engine, next to a hit
\* of another segment
C1_Witness ==
    /\ Posted /\ Len(results) = 2
    /\ \E i, j \in 1..Len(sHits) :
          i # j /\ sHits[i].document.segmentId = sHits[j].document.segmentId

\* C4 (as claimed): for a non-empty result list every returned score is >= 0
\* and the largest is < 1.0.
C4_ScoresInUnitRange ==
    (Posted /\ Len(results) > 0) =>
        \A i \in 1..Len(results) :
            NumGeq(results[i].score, Zero) /\ NumLt(results[i].score, One)

\* C6: after re-ranking, every segment with a candidate hit has exactly one
\* kept result; its raw score is the maximum of fused score + boost over the
\* segment's candidates, and it carries the segment's id, its full text (not
\* the chunk text) and its start and end.
C6_BestPassagePerSegment ==
    Ranked =>
        /\ Len(scoredResults) = Cardinality(HitSegments)
        /\ \A id \in HitSegments :
              \E k \in 1..Len(scoredResults) :
                  /\ scoredResults[k].segment.id = id
                  /\ scoredResults[k].score = Max({RawFinal(i) : i \in HitsOf(id)})
                  /\ scoredResults[k].segment \in CorpusSegments
        /\ (sPc = "posted" =>
              \A i \in 1..Len(results) : results[i].segment \in CorpusSegments)

\* a segment whose first candidate scores higher than its second, and whose
\* full text differs from the chunk texts
C6_Witness ==
    /\ Ranked
    /\ \E i, j \in 1..Len(sHits) :
          /\ i < j
          /\ sHits[i].document.segmentId = sHits[j].document.segmentId
          /\ RawFinal(i) > RawFinal(j)
          /\ sHits[i].document.text # sHits[i].document.fullSegmentText

\* the limit of the request: 10 when it gives none
RequestLimit == IF sLimit = NoLimit THEN 10 ELSE sLimit[1]

\* C7: the returned list has at most L entries; its scores are non-increasing;
\* it holds the L survivors with the highest raw final scores (all of them
\* when there are fewer); and of two results the one with the higher raw
\* score has the higher normalised score.
C7_TopLimitInOrder ==
    Posted =>
        /\ Len(results) <= RequestLimit
        /\ Len(results) = Min2(RequestLimit, Len(scoredResults))
        /\ \A i \in 1..(Len(results) - 1) :
              NumGeq(results[i].score, results[i + 1].score)
        /\ \A i \in 1..Len(results) :
              /\ results[i].segment = sliced[i].segment
              /\ \E k \in 1..Len(scoredResults) : scoredResults[k] = sliced[i]
        /\ \A i \in 1..(Len(sliced) - 1) : sliced[i].score >= sliced[i + 1].score
        /\ \A k \in 1..Len(scoredResults) :
              (\A i \in 1..Len(sliced) : sliced[i].segment.id # scoredResults[k].segment.id)
                  => \A i \in 1..Len(sliced) : sliced[i].score >= scoredResults[k].score
        /\ \A i, j \in 1..Len(results) :
              sliced[i].score > sliced[j].score => NumGt(results[i].score, results[j].score)

\* for every corpus text and intent: the text holds an indicator phrase of it
IndicatorTable ==
    [t \in {d.text : d \in SearchCorpus}, intent \in DOMAIN ANSWER_INDICATORS \cup {"general"} |->
        \E j \in 1..Len(IndicatorsOf(intent)) :
            Includes(ToLowerCase(t), IndicatorsOf(intent)[j])]

\* text holds an indicator phrase of the intent
HasIndicator(text, intent) == IndicatorTable[text, intent]

DetectedIntents == {sIntents[i] : i \in 1..Len(sIntents)}

\* position of a segment in the returned list, 0 when it is not returned
RankOf(id) ==
    IF \E i \in 1..Len(results) : results[i].segment.id = id
    THEN CHOOSE i \in 1..Len(results) : results[i].segment.id = id
    ELSE 0

RankedAbove(a, b) == RankOf(a) > 0 /\ RankOf(a) < RankOf(b)

OutranksByBoost(i, b, intent) ==
    /\ HasIndicator(sHits[i].document.text, intent)
    /\ \A j \in HitsOf(b) :
          /\ sHits[j].score <= sHits[i].score
          /\ \A other \in DetectedIntents : ~HasIndicator(sHits[j].document.text, other)

-----------------------------------------------------------------------------
(* Claims about the index.                                                 *)

\* the transcribe operation a document comes from
OperationOf(doc) == doc.segmentId[2]

\* the documents operation op has in any index
IndexedBy(op) == UNION {{d \in dbs[n] : OperationOf(d) = op} : n \in 1..Len(dbs)}

\* C2: in every reachable state the current index holds passages of at most
\* one transcribe operation (one audio file)
C2_OneFilePerIndex ==
    oramaDb # 0 =>
        \A d1, d2 \in dbs[oramaDb] : OperationOf(d1) = OperationOf(d2)

\* C3: every index holds only passages of transcribe operations that began
\* while it was the current index: an index a clear swaps in has nothing of the
\* operations begun before it, and an operation that was still executing when
\* the clear was processed writes into the index that was swapped out
C3_WriteLandsInStaleIndex ==
    \A n \in 1..Len(dbs) : \A d \in dbs[n] : began[OperationOf(d)] = n

\* the documents transcribeAudio builds for its segments when no embedding is dropped
AllDocuments(segs) ==
    {MakeDocument(w.segment, w.j, w.chunk, EMBEDDING_DIM) : w \in Range(EmbedWork(segs))}

\* C8: every passage in any index has an embedding of length EMBEDDING_DIM;
\* a passage whose embedding had another length is in no index; an operation
\* that posted its result has indexed every other passage of its segments;
\* and no hit the engine returned to a search is a skipped passage
C8_OnlyFullLengthEmbeddings ==
    /\ \A n \in 1..Len(dbs) : \A d \in dbs[n] :
          d.embedding = EMBEDDING_DIM /\ d.id \notin skipped
    /\ \A m \in Range(outbox) :
          m.type = "transcription-result" =>
              IndexedBy(m.req) = {d \in AllDocuments(m.segments) : d.id \notin skipped}
    /\ \A m \in Range(outbox) :
          m.type = "search-results" =>
              \A h \in Range(m.hits) : h.document.id \notin skipped

\* an operation dropped one passage for its embedding's length, indexed
\* another and posted its result
C8_Witness ==
    \E m \in Range(outbox) :
        /\ m.type = "transcription-result"
        /\ \E id \in skipped : id[1][2] = m.req
        /\ IndexedBy(m.req) # {}


-----------------------------------------------------------------------------
(* Claims about chunkTextWithWindow (SpecChunk).                           *)

Chunked == cPc = "done"

\* the window of up to WINDOW_SIZE sentences that starts at sentence k (1-based)
WindowAt(sentences, k) == SubSeq(sentences, k, Min2(k + 2, Len(sentences)))

\* C11: for a text of n >= 1 sentences the chunks are, in order, the windows
\* starting at sentence 1, 2, ..., each its sentences joined by single spaces;
\* the last chunk is the first window that holds the last sentence, so there
\* are max(1, n - 2) chunks and every sentence is in one of them.
C11_WindowsInReadingOrder ==
    (Chunked /\ Len(Sentences(cText)) >= 1) =>
        LET sentences == Sentences(cText)
            n         == Len(sentences)
        IN  /\ Len(cChunks) = (IF n - 2 > 1 THEN n - 2 ELSE 1)
            /\ \A k \in 1..Len(cChunks) :
                  /\ cChunks[k].text = Join(WindowAt(sentences, k), " ")
                  /\ (k < Len(cChunks) => k + 2 < n)
            /\ Len(cChunks) + 2 >= n
            /\ \A j \in 1..n : \E k \in 1..Len(cChunks) : k <= j /\ j <= k + 2

\* a text of five sentences, two of them equal, gave three chunks
C11_Witness ==
    /\ Chunked /\ Len(cChunks) = 3
    /\ Len(Sentences(cText)) = 5
    /\ Sentences(cText)[1] = Sentences(cText)[3]

C13_ShortTextOneFullChunk ==
    (Chunked /\ Len(Sentences(cText)) < WINDOW_SIZE) =>
        /\ Len(cChunks) = 1
        /\ NumGeq(Zero, cChunks[1].startRatio) /\ NumGeq(cChunks[1].startRatio, Zero)
        /\ NumGeq(One, cChunks[1].endRatio) /\ NumGeq(cChunks[1].endRatio, One)

C15_ChunkIsSubstring ==
    Chunked => \A k \in 1..Len(cChunks) : Includes(cText, cChunks[k].text)


-----------------------------------------------------------------------------
(* Claims about the worker's errors (SpecWorker).                          *)

\* the places in outbox of the messages posted for request req
PostedFor(req) == {i \in 1..Len(outbox) : outbox[i].req = req}

\* invocation of request req is over and posted one message, an error
\* labelled with operation
OneErrorOnly(req, operation) ==
    /\ \A t \in tasks : t.req # req
    /\ Cardinality(PostedFor(req)) = 1
    /\ \A i \in PostedFor(req) :
          outbox[i].type = "error" /\ outbox[i].operation = operation

\* the embedder or insertMultiple threw in a transcribe operation
IndexingFailed(e) ==
    e.ev = "failed" /\ e.kind = "transcribe" /\ e.stage \in {"embed", "insert"}

\* C16 (as claimed): when the embedder or the index engine fails while
\* passages are embedded or inserted, the operation stops and posts exactly
\* one message, an error labelled 'index', and no transcription-result.
C16_IndexFailureLabelledIndex ==
    \A e \in hist : IndexingFailed(e) => OneErrorOnly(e.req, "index")

\* C16 (amended): ... an error labelled 'transcribe', and no
\* transcription-result.
C16_IndexFailureLabelledTranscribe ==
    \A e \in hist : IndexingFailed(e) => OneErrorOnly(e.req, "transcribe")

\* the embedder failed in one operation after another operation posted its result
C16_Witness ==
    /\ \E e \in hist : IndexingFailed(e) /\ e.stage = "embed"
    /\ \E i \in 1..Len(outbox) : outbox[i].type = "transcription-result"

\* C17: when the embedder or the engine fails in a search, the search stops
\* and posts exactly one message, an error labelled 'search', and no
\* search-results.
C17_SearchFailureOneError ==
    \A e \in hist :
        (e.ev = "failed" /\ e.kind = "search") => OneErrorOnly(e.req, "search")

\* the engine failed in a search of an index that holds passages
C17_Witness ==
    \E e \in hist :
        /\ e.ev = "failed" /\ e.kind = "search" /\ e.stage = "search"
        /\ oramaDb # 0 /\ dbs[oramaDb] # {}

\* C18: a transcribe or search request handled while the ASR pipeline, the
\* embedder or the index is not there yet posts exactly one message, an error
\* labelled with its operation, starts nothing, and no passage of it is in
\* any index.
C18_NotLoadedOneError ==
    \A e \in hist :
        (e.ev = "handled" /\ ~e.loaded) =>
            /\ OneErrorOnly(e.req, e.type)
            /\ IndexedBy(e.req) = {}

\* a transcribe and a search were handled while the models were loading, and
\* the load has completed since
C18_Witness ==
    /\ \E e \in hist : e.ev = "handled" /\ ~e.loaded /\ e.type = "transcribe"
    /\ \E e \in hist : e.ev = "handled" /\ ~e.loaded /\ e.type = "search"
    /\ oramaDb # 0


-----------------------------------------------------------------------------
(* Claims about the engine's search (Spec).                                *)

\* a search is waiting for the engine's answer
AwaitsEngine(t) == t.kind = "search" /\ t.pc = "search"

\* C20: for every search with limit L >= 1 the number of candidates requested
\* from the engine is greater than L, namely 2 * L (20 when no limit is given).
C20_EngineAskedForMoreThanLimit ==
    \A t \in tasks :
        AwaitsEngine(t) => t.requested > t.limit /\ t.requested = 2 * t.limit


\* the hook holds the outcome of a transcription that gave no segment: the
\* file's audio has no speech, nothing failed, and the operation is over
\* with its result handled
ZeroSegmentsIndexed ==
    /\ audioFile # NoFile /\ AsrChunks[audioFile] = <<>>
    /\ ~isTranscribing /\ loads = {} /\ faults = 0
    /\ \A t \in tasks : t.kind # "transcribe"
    /\ \A i \in 1..Len(inbox) : inbox[i].type # "transcribe"
    /\ \A i \in 1..Len(outbox) : outbox[i].type # "transcription-result"
    /\ oramaDb # 0 /\ dbs[oramaDb] = {}

\* C19: after indexing zero segments, a call of useInsight's search with any
\* query reports no error and leaves an empty result sequence.
C19_EmptyIndexSearchNoError ==
    [][\A q \in TypedQueries :
          (ZeroSegmentsIndexed /\ search(q)) =>
              (error' = NoError /\ searchResults' = <<>>)]_vars


-----------------------------------------------------------------------------
(* Further claims about chunkTextWithWindow (SpecChunk) and about the       *)
(* normalised scores (SpecSearch).                                          *)

\* C29: the chunks have non-decreasing startRatio in emission order.
C29_StartRatioNonDecreasing ==
    Chunked =>
        \A k \in 1..(Len(cChunks) - 1) :
            NumGeq(cChunks[k + 1].startRatio, cChunks[k].startRatio)

\* the two fractions are the same number
NumEq(a, b) == a.d > 0 /\ b.d > 0 /\ a.n * b.d = b.n * a.d

-----------------------------------------------------------------------------
(* Claims about the hook and the worker together.                          *)

\* the transcribe request the hook's segments come from
SegmentOperation(segment) == segment.id[2]

\* C21: once the hook has handled a 'cleared' message, its segments are empty
\* or come from a transcribe request posted after that clear request: the
\* result of an operation posted before the clear is discarded.
C21_StaleTranscriptionDiscarded ==
    \A e \in hist :
        e.ev = "cleared" =>
            \A i \in 1..Len(segments) : SegmentOperation(segments[i]) > e.req


\* a request of this type was posted to the worker and is not answered yet:
\* it waits in the worker's queue or its handler is suspended at an await
Unanswered(type) ==
    \/ \E i \in 1..Len(inbox) : inbox[i].type = type
    \/ \E t \in tasks : t.kind = type

\* C22: at no time are a transcribe request and a search request both posted
\* to the worker and both unanswered.
C22_NoOverlappingIndexAndSearch ==
    ~(Unanswered("transcribe") /\ Unanswered("search"))


\* C26: isSearching is true whenever a search request is unanswered and
\* isTranscribing is true whenever a transcribe request is unanswered.
C26_FlagsCoverUnansweredRequests ==
    /\ Unanswered("search") => isSearching
    /\ Unanswered("transcribe") => isTranscribing


\* C27: a reply to an earlier search never overwrites the results of a later
\* one: when the hook handles a search-results message, every reply it has
\* handled for another query belongs to a request issued before this one, so
\* that with every reply handled searchResults is the last request's.
C27_LatestSearchWins ==
    [][HandleSearchResults =>
          \A e \in hist :
              (e.ev = "results" /\ e.query # Head(outbox).query) =>
                  e.req < Head(outbox).req]_vars


\* C28: in every state in which the effects have run, a searchQuery that is
\* blank (empty after trimming) implies that searchResults is empty.
C28_BlankQueryNoResults ==
    (~effectPending /\ Trim(searchQuery) = "") => searchResults = <<>>


\* C25: every loadAudio call that sets isTranscribing is eventually followed
\* by isTranscribing being false again, whichever step succeeds or fails.
C25_TranscribingEventuallyEnds == isTranscribing ~> ~isTranscribing


-----------------------------------------------------------------------------
(* Claims about the batch insert (SpecWorker).                             *)

\* the transcribe requests that posted their result, with their segments
Transcribed == {m \in Range(outbox) : m.type = "transcription-result"}

\* C24: the passages of a transcribe operation get into an index in one batch
\* and only when every chunk has been embedded: while the operation runs, and
\* after the embedder has thrown in it, no index holds a passage of it; once
\* it has posted its result, one index holds all its surviving passages.
C24_OneBatchAfterAllEmbedded ==
    /\ \A t \in tasks : t.kind = "transcribe" => IndexedBy(t.req) = {}
    /\ \A e \in hist :
          (e.ev = "failed" /\ e.kind = "transcribe" /\ e.stage = "embed") =>
              IndexedBy(e.req) = {}
    /\ \A m \in Transcribed :
          /\ IndexedBy(m.req) = {d \in AllDocuments(m.segments) : d.id \notin skipped}
          /\ \E n \in 1..Len(dbs) : IndexedBy(m.req) \subseteq dbs[n]

\* the embedder threw in one operation while the index held the passages of
\* another, which stay as they were
C24_Witness ==
    /\ \E e \in hist : e.ev = "failed" /\ e.kind = "transcribe" /\ e.stage = "embed"
    /\ \E m \in Transcribed : IndexedBy(m.req) # {}


-----------------------------------------------------------------------------
(* Claim about indexing again after a reset (SpecReindex).                 *)

\* A deterministic engine: whether a passage is a hit depends on its text and
\* on the query only (here: the lower-cased text includes the query); every
\* hit has the same fused score.
StubQueries == {"trust", "is", "practice", "zzz"}
StubLimits == {1, 2, DefaultLimit}

RECURSIVE SeqOfSet(_)
SeqOfSet(S) ==
    IF S = {} THEN <<>>
    ELSE LET x == CHOOSE y \in S : TRUE IN <<x>> \o SeqOfSet(S \ {x})

StubHits(docs, q) ==
    SeqOfSet({[document |-> d, score |-> 1] :
                 d \in {x \in docs : Includes(ToLowerCase(x.text), q)}})

\* the size of the result list of a search of index n
ResultSize(n, q, limit) ==
    Len(Normalise(SortAndSlice(Rerank(StubHits(dbs[n], q),
                                      detectQuestionIntent(FreshLastIndex, q)),
                               limit)))

\* a segment sequence without the ids generateId() gave
SegmentContents(segs) ==
    [i \in 1..Len(segs) |-> [text |-> segs[i].text, start |-> segs[i].start, end |-> segs[i].end]]

\* the chunks of operation op the embedder answered with another length
SkippedOf(op) == {<<id[1][3], id[2]>> : id \in {x \in skipped : x[1][2] = op}}

\* m1 and m2 are the results of indexing the same segment sequence before and
\* after one reset, nothing else having been indexed before or after it, the
\* embedder having answered each chunk the same way both times
ReindexedAfterReset(m1, m2) ==
    /\ SegmentContents(m1.segments) = SegmentContents(m2.segments)
    /\ began[m2.req] = began[m1.req] + 1
    /\ \A m \in Transcribed \ {m1, m2} : began[m.req] \notin {began[m1.req], began[m2.req]}
    /\ SkippedOf(m1.req) = SkippedOf(m2.req)

\* C23: indexing a segment sequence, resetting and indexing the same sequence
\* again gives, for the same query and limit, a result list of the same size.
C23_SameResultSizeAfterReindex ==
    \A m1, m2 \in Transcribed :
        ReindexedAfterReset(m1, m2) =>
            \A q \in StubQueries : \A l \in StubLimits :
                ResultSize(began[m1.req], q, l) = ResultSize(began[m2.req], q, l)

\* a file was indexed, the index reset, the file indexed again, and a query
\* has a result
C23_Witness ==
    \E m1, m2 \in Transcribed :
        /\ ReindexedAfterReset(m1, m2)
        /\ \E q \in StubQueries : ResultSize(began[m2.req], q, DefaultLimit) > 0

=============================================================================
